---- MODULE Spec2Model ----
(***************************************************************************)
(* Model of obp.ope.meta_slate.SlateOffPolicyEvaluation.                   *)
(*                                                                         *)
(* The evaluator is a stateless-per-call orchestrator: its state is what   *)
(* __post_init__ derives from the constructor arguments, and every public  *)
(* method is a sequential handler that calls out to the regression model   *)
(* and to the registered estimators.  Each handler is one action; the      *)
(* calls it makes to its collaborators are recorded, in order, in `trace`. *)
(*                                                                         *)
(* Numbers: estimates, rewards and ground truths are integers; a quotient  *)
(* is an exact rational [num, den] in lowest terms with den > 0, and       *)
(* numpy's nan is the record NaN.  alpha is in hundredths (5 is 0.05).     *)
(***************************************************************************)
EXTENDS Integers, Sequences, FiniteSets, TLC

VARIABLES
    bandit_feedback,        \* constructor argument: the logged feedback
    ope_estimators,         \* constructor argument: the list of estimators
    base_regression_model,  \* constructor argument: "None" or a model
    phase,                  \* "new" | "ready" | "failed" (constructor raised)
    init_error,             \* what __post_init__ raised, NoError otherwise
    n_rounds,               \* self.n_rounds
    len_list,               \* self.len_list
    ope_estimators_,        \* self.ope_estimators_, an insertion-ordered dict
    op,                     \* the public method called last, "none" before
    call_args,              \* the arguments of that call
    error,                  \* what that call raised, NoError if it returned
    result,                 \* what that call returned
    trace                   \* the collaborator calls that call made, in order

vars == <<bandit_feedback, ope_estimators, base_regression_model, phase,
          init_error, n_rounds, len_list, ope_estimators_, op, call_args,
          error, result, trace>>

(***************************************************************************)
(* Bounds of the model.                                                    *)
(***************************************************************************)
MaxRounds == 4
MaxLenList == 2
MaxEstimators == 2

(***************************************************************************)
(* Exceptions.                                                             *)
(***************************************************************************)
NoError == [type |-> "None", arg |-> ""]
Raise(t, a) == [type |-> t, arg |-> a]

(***************************************************************************)
(* Exact rationals standing for floats.                                    *)
(***************************************************************************)
Abs(x) == IF x < 0 THEN -x ELSE x

RECURSIVE GCD(_, _)
GCD(a, b) == IF b = 0 THEN a ELSE GCD(b, a % b)

Rat(n, d) ==
    LET g == GCD(Abs(n), Abs(d))
        s == IF d < 0 THEN -1 ELSE 1
    IN  [num |-> (s * n) \div g, den |-> (s * d) \div g]

RatAbs(q) == [num |-> Abs(q.num), den |-> q.den]

NaN == [num |-> 0, den |-> 0]

(***************************************************************************)
(* Arrays.                                                                 *)
(***************************************************************************)
RECURSIVE SumSeq(_)
SumSeq(s) == IF s = <<>> THEN 0 ELSE Head(s) + SumSeq(Tail(s))

CountEq(s, v) == Cardinality({i \in DOMAIN s : s[i] = v})

Unique(s) == {s[i] : i \in DOMAIN s}

(***************************************************************************)
(* The logged feedback: a dict.  `keys` is the set of keys it holds; the   *)
(* arrays the evaluator itself reads are kept by value, the others are     *)
(* opaque and stand for themselves.                                        *)
(***************************************************************************)
RequiredKeys == <<"slate_id", "position", "reward">>
LoggedInputKeys == <<"slate_id", "action", "reward", "position", "pscore",
                     "pscore_item_position", "pscore_cascade">>
ScalarKeys == {"n_rounds", "n_unique_action"}
OptionalKeys == {"context", "action", "pscore", "pscore_item_position",
                 "pscore_cascade"}
FeedbackKeys == ScalarKeys \cup {"slate_id", "position", "reward"} \cup OptionalKeys

RewardValues == {-1, 0, 1}

\* n slates of len rows each, ids first, first+1, ..., positions 0..len-1 in
\* each slate; the first row's reward is a, every other row's is b.
Feedback(keys, n, len, first, a, b) ==
    [keys |-> keys,
     n_rounds |-> n,
     slate_id |-> [r \in 1..(n * len) |-> first + ((r - 1) \div len)],
     position |-> [r \in 1..(n * len) |-> (r - 1) % len],
     reward |-> [r \in 1..(n * len) |-> IF r = 1 THEN a ELSE b]]

(***************************************************************************)
(* The collaborators.  An estimator is a stub with a fixed name and a fixed*)
(* answer; two of them share the name "sips".  A regression model either   *)
(* returns its prediction or raises.                                       *)
(***************************************************************************)
EstimatorPool ==
    {[id |-> 1, estimator_name |-> "sips", value |-> 1, raises |-> FALSE],
     [id |-> 2, estimator_name |-> "iips", value |-> -2, raises |-> FALSE],
     [id |-> 3, estimator_name |-> "sips", value |-> 2, raises |-> TRUE]}

EstimatorLists ==
    UNION {[1..k -> EstimatorPool] : k \in 0..MaxEstimators}

RegressionModels == {"None", "model", "failing_model"}

(***************************************************************************)
(* Python's dict, insertion-ordered: a sequence of [key, value] without    *)
(* repeated keys.  Assigning to a key that exists replaces the value in    *)
(* place.                                                                  *)
(***************************************************************************)
DictHas(d, k) == \E i \in DOMAIN d : d[i].key = k

DictGet(d, k) == d[CHOOSE i \in DOMAIN d : d[i].key = k].value

DictSetFirstWins(d, k, v) ==
    IF DictHas(d, k) THEN d ELSE Append(d, [key |-> k, value |-> v])

DictSet(d, k, v) ==
    IF DictHas(d, k)
    THEN [i \in DOMAIN d |-> IF d[i].key = k THEN [key |-> k, value |-> v] ELSE d[i]]
    ELSE Append(d, [key |-> k, value |-> v])

DictKeys(d) == {d[i].key : i \in DOMAIN d}

(***************************************************************************)
(* __post_init__                                                           *)
(***************************************************************************)
RECURSIVE RegisterFrom(_, _, _)
RegisterFrom(ests, i, d) ==
    IF i > Len(ests) THEN d
    ELSE RegisterFrom(ests, i + 1, DictSet(d, ests[i].estimator_name, ests[i]))

\* the first of slate_id, position, reward that is missing, "" if none
RECURSIVE FirstMissing(_, _, _)
FirstMissing(req, i, keys) ==
    IF i > Len(req) THEN ""
    ELSE IF req[i] \notin keys THEN req[i]
    ELSE FirstMissing(req, i + 1, keys)

PostInitCountsPositionZero(fb, ests) ==
    LET missing == FirstMissing(RequiredKeys, 1, fb.keys)
        failed(e) == [error |-> e, n_rounds |-> 0, len_list |-> 0, registry |-> <<>>]
    IN  IF "n_rounds" \notin fb.keys THEN failed(Raise("KeyError", "n_rounds"))
        ELSE IF "slate_id" \notin fb.keys THEN failed(Raise("KeyError", "slate_id"))
        ELSE IF "n_unique_action" \notin fb.keys
             THEN failed(Raise("KeyError", "n_unique_action"))
        ELSE IF missing # "" THEN failed(Raise("RuntimeError", missing))
        ELSE [error |-> NoError,
              n_rounds |-> fb.n_rounds,
              len_list |-> CountEq(fb.position, 0),
              registry |-> RegisterFrom(ests, 1, <<>>)]

\* Lines 127-129 read n_rounds, slate_id and n_unique_action with [] before
\* the loop of lines 131-133 checks the required keys.
PostInit(fb, ests) ==
    LET missing == FirstMissing(RequiredKeys, 1, fb.keys)
        failed(e) == [error |-> e, n_rounds |-> 0, len_list |-> 0, registry |-> <<>>]
    IN  IF "n_rounds" \notin fb.keys THEN failed(Raise("KeyError", "n_rounds"))
        ELSE IF "slate_id" \notin fb.keys THEN failed(Raise("KeyError", "slate_id"))
        ELSE IF "n_unique_action" \notin fb.keys
             THEN failed(Raise("KeyError", "n_unique_action"))
        ELSE IF missing # "" THEN failed(Raise("RuntimeError", missing))
        ELSE [error |-> NoError,
              n_rounds |-> fb.n_rounds,
              len_list |-> CountEq(fb.slate_id, 0),
              registry |-> RegisterFrom(ests, 1, <<>>)]

post_init ==
    /\ phase = "new"
    /\ LET r == PostInit(bandit_feedback, ope_estimators)
       IN  /\ phase' = IF r.error = NoError THEN "ready" ELSE "failed"
           /\ init_error' = r.error
           /\ n_rounds' = r.n_rounds
           /\ len_list' = r.len_list
           /\ ope_estimators_' = r.registry
    /\ UNCHANGED <<bandit_feedback, ope_estimators, base_regression_model,
                   op, call_args, error, result, trace>>

(***************************************************************************)
(* Construction on its own: every feedback that lacks at most two of the   *)
(* keys the constructor reads, or one optional key, in every shape, with   *)
(* slate ids that start at 0 or at 1, and every list of estimators.        *)
(***************************************************************************)
ConstructorKeys == ScalarKeys \cup {"slate_id", "position", "reward"}

KeySetsPostInit ==
    {FeedbackKeys \ {k1, k2} : k1, k2 \in ConstructorKeys}
        \cup {FeedbackKeys \ {k} : k \in OptionalKeys}
        \cup {FeedbackKeys}

Unconstructed ==
    /\ phase = "new"
    /\ init_error = NoError
    /\ n_rounds = 0
    /\ len_list = 0
    /\ ope_estimators_ = <<>>
    /\ op = "none"
    /\ call_args = <<>>
    /\ error = NoError
    /\ result = <<>>
    /\ trace = <<>>

InitPostInit ==
    /\ \E keys \in KeySetsPostInit, n \in 1..MaxRounds, len \in 1..MaxLenList,
          first \in {0, 1} :
          bandit_feedback = Feedback(keys, n, len, first, 1, 1)
    /\ ope_estimators \in EstimatorLists
    /\ base_regression_model = "model"
    /\ Unconstructed

NextPostInit == post_init

SpecPostInit == InitPostInit /\ [][NextPostInit]_vars

(***************************************************************************)
(* Values handed to the collaborators.  An array is opaque: it is known by *)
(* where it comes from.  None is Python's None.                            *)
(***************************************************************************)
None == [src |-> "None", key |-> ""]
Logged(k) == [src |-> "bandit_feedback", key |-> k]
Given(k) == [src |-> "caller", key |-> k]
QHat == [src |-> "fit_predict", key |-> "q_hat_for_counterfactual_actions"]

\* the four evaluation-policy arguments of every public method
EvaluationPolicyArgs ==
    [evaluation_policy_pscore : {None, Given("evaluation_policy_pscore")},
     evaluation_policy_pscore_item_position :
         {None, Given("evaluation_policy_pscore_item_position")},
     evaluation_policy_pscore_cascade :
         {None, Given("evaluation_policy_pscore_cascade")},
     evaluation_policy_action_dist : {None, Given("evaluation_policy_action_dist")}]

\* one call made to a collaborator: which method, of which estimator (0 for
\* the regression model), with which keyword arguments
Event(call, id, inputs, extra) ==
    [call |-> call, estimator |-> id, inputs |-> inputs, extra |-> extra]

Outcome(e, r, t) == [error |-> e, result |-> r, trace |-> t]

(***************************************************************************)
(* _create_estimator_inputs                                                *)
(***************************************************************************)
RECURSIVE CopyLoggedOrNone(_, _, _)
CopyLoggedOrNone(keys, i, fb) ==
    IF i > Len(keys) THEN <<>>
    ELSE <<[key |-> keys[i],
            value |-> IF keys[i] \in fb.keys THEN Logged(keys[i]) ELSE None]>>
             \o CopyLoggedOrNone(keys, i + 1, fb)

RECURSIVE CopyLogged(_, _, _)
CopyLogged(keys, i, fb) ==
    IF i > Len(keys) THEN <<>>
    ELSE IF keys[i] \in fb.keys
         THEN <<[key |-> keys[i], value |-> Logged(keys[i])]>>
                  \o CopyLogged(keys, i + 1, fb)
         ELSE CopyLogged(keys, i + 1, fb)

FitPredictKeys == <<"context", "action", "reward", "pscore_cascade">>

FitPredictInputs(a) ==
    <<[key |-> "context", value |-> Logged("context")],
      [key |-> "action", value |-> Logged("action")],
      [key |-> "reward", value |-> Logged("reward")],
      [key |-> "pscore_cascade", value |-> Logged("pscore_cascade")],
      [key |-> "evaluation_policy_pscore_cascade",
       value |-> a.evaluation_policy_pscore_cascade],
      [key |-> "evaluation_policy_action_dist",
       value |-> a.evaluation_policy_action_dist]>>

AnyAbsent(a) ==
    \/ a.evaluation_policy_pscore = None
    \/ a.evaluation_policy_pscore_item_position = None
    \/ a.evaluation_policy_pscore_cascade = None

AllAbsent(a) ==
    /\ a.evaluation_policy_pscore = None
    /\ a.evaluation_policy_pscore_item_position = None
    /\ a.evaluation_policy_pscore_cascade = None

\* as if the regression step were skipped for an evaluator without a model
CreateEstimatorInputsOptionalModel(a) ==
    LET fb == bandit_feedback
        d0 == CopyLogged(LoggedInputKeys, 1, fb)
        d1 == DictSet(d0, "evaluation_policy_pscore", a.evaluation_policy_pscore)
        d2 == DictSet(d1, "evaluation_policy_pscore_item_position",
                      a.evaluation_policy_pscore_item_position)
        d3 == DictSet(d2, "evaluation_policy_pscore_cascade",
                      a.evaluation_policy_pscore_cascade)
        d4 == DictSet(d3, "evaluation_policy_action_dist",
                      a.evaluation_policy_action_dist)
        missing == FirstMissing(FitPredictKeys, 1, fb.keys)
        fit == Event("fit_predict", 0, FitPredictInputs(a), <<>>)
    IN  IF AllAbsent(a) THEN Outcome(Raise("ValueError", "evaluation_policy_pscore"), <<>>, <<>>)
        ELSE IF base_regression_model = "None"
             THEN Outcome(NoError,
                          DictSet(d4, "q_hat_for_counterfactual_actions", None),
                          <<>>)
        ELSE IF missing # "" THEN Outcome(Raise("KeyError", missing), <<>>, <<>>)
        ELSE IF base_regression_model = "failing_model"
             THEN Outcome(Raise("RegressionError", "fit_predict"), <<>>, <<fit>>)
        ELSE Outcome(NoError,
                     DictSet(d4, "q_hat_for_counterfactual_actions", QHat),
                     <<fit>>)

CreateEstimatorInputs(a) ==
    LET fb == bandit_feedback
        d0 == CopyLogged(LoggedInputKeys, 1, fb)
        d1 == DictSet(d0, "evaluation_policy_pscore", a.evaluation_policy_pscore)
        d2 == DictSet(d1, "evaluation_policy_pscore_item_position",
                      a.evaluation_policy_pscore_item_position)
        d3 == DictSet(d2, "evaluation_policy_pscore_cascade",
                      a.evaluation_policy_pscore_cascade)
        d4 == DictSet(d3, "evaluation_policy_action_dist",
                      a.evaluation_policy_action_dist)
        missing == FirstMissing(FitPredictKeys, 1, fb.keys)
        fit == Event("fit_predict", 0, FitPredictInputs(a), <<>>)
    IN  IF AllAbsent(a) THEN Outcome(Raise("ValueError", "evaluation_policy_pscore"), <<>>, <<>>)
        ELSE IF base_regression_model = "None"
             THEN Outcome(Raise("AttributeError", "fit_predict"), <<>>, <<>>)
        ELSE IF missing # "" THEN Outcome(Raise("KeyError", missing), <<>>, <<>>)
        ELSE IF base_regression_model = "failing_model"
             THEN Outcome(Raise("RegressionError", "fit_predict"), <<>>, <<fit>>)
        ELSE Outcome(NoError,
                     DictSet(d4, "q_hat_for_counterfactual_actions", QHat),
                     <<fit>>)

(***************************************************************************)
(* The loop over self.ope_estimators_.items(): each estimator is called    *)
(* with the bundle; the first one that raises ends the loop and the call.  *)
(***************************************************************************)
IntervalOf(est) ==
    [mean |-> est.value, lower |-> est.value - 1, upper |-> est.value + 1]

RECURSIVE ForEachEstimatorSkipsFailed(_, _, _, _, _, _)
ForEachEstimatorSkipsFailed(call, inputs, extra, i, acc, tr) ==
    IF i > Len(ope_estimators_) THEN Outcome(NoError, acc, tr)
    ELSE LET name == ope_estimators_[i].key
             est == ope_estimators_[i].value
             tr2 == Append(tr, Event(call, est.id, inputs, extra))
             answer == IF call = "estimate_interval" THEN IntervalOf(est) ELSE est.value
         IN  ForEachEstimatorSkipsFailed(call, inputs, extra, i + 1,
                 IF est.raises THEN acc ELSE DictSet(acc, name, answer), tr2)

RECURSIVE ForEachEstimator(_, _, _, _, _, _)
ForEachEstimator(call, inputs, extra, i, acc, tr) ==
    IF i > Len(ope_estimators_) THEN Outcome(NoError, acc, tr)
    ELSE LET name == ope_estimators_[i].key
             est == ope_estimators_[i].value
             tr2 == Append(tr, Event(call, est.id, inputs, extra))
             answer == IF call = "estimate_interval" THEN IntervalOf(est) ELSE est.value
         IN  IF est.raises
             THEN Outcome(Raise("EstimatorError", name), <<>>, tr2)
             ELSE ForEachEstimator(call, inputs, extra, i + 1,
                                   DictSet(acc, name, answer), tr2)

(***************************************************************************)
(* estimate_policy_values                                                  *)
(***************************************************************************)
EstimatePolicyValues(a) ==
    LET c == CreateEstimatorInputs(a)
    IN  IF c.error # NoError THEN c
        ELSE ForEachEstimator("estimate_policy_value", c.result, <<>>, 1, <<>>, c.trace)

(***************************************************************************)
(* obp.utils.check_confidence_interval_arguments: 0 < alpha < 1 and        *)
(* n_bootstrap_samples a positive integer, ValueError otherwise.           *)
(***************************************************************************)
CheckConfidenceIntervalArguments(alpha, n_bootstrap_samples) ==
    IF ~(0 < alpha /\ alpha < 100) THEN Raise("ValueError", "alpha")
    ELSE IF n_bootstrap_samples <= 0 THEN Raise("ValueError", "n_bootstrap_samples")
    ELSE NoError

(***************************************************************************)
(* estimate_intervals                                                      *)
(***************************************************************************)
EstimateIntervalsChecksLast(a, alpha, n_bootstrap_samples) ==
    LET chk == CheckConfidenceIntervalArguments(alpha, n_bootstrap_samples)
        c == CreateEstimatorInputs(a)
    IN  IF c.error # NoError THEN c
        ELSE IF chk # NoError THEN Outcome(chk, <<>>, c.trace)
        ELSE ForEachEstimator("estimate_interval", c.result,
                              <<alpha, n_bootstrap_samples>>, 1, <<>>, c.trace)

EstimateIntervals(a, alpha, n_bootstrap_samples) ==
    LET chk == CheckConfidenceIntervalArguments(alpha, n_bootstrap_samples)
        c == CreateEstimatorInputs(a)
    IN  IF chk # NoError THEN Outcome(chk, <<>>, <<>>)
        ELSE IF c.error # NoError THEN c
        ELSE ForEachEstimator("estimate_interval", c.result,
                              <<alpha, n_bootstrap_samples>>, 1, <<>>, c.trace)

(***************************************************************************)
(* summarize_off_policy_estimates                                          *)
(***************************************************************************)
PolicyValueOfBehaviorPolicyPerRow(fb) ==
    Rat(SumSeq(fb.reward), Len(fb.slate_id))

\* sum(reward) / number of distinct slate_id
PolicyValueOfBehaviorPolicy(fb) ==
    Rat(SumSeq(fb.reward), Cardinality(Unique(fb.slate_id)))

RelativeEstimatedPolicyValue(estimated, behavior) ==
    IF behavior.num <= 0 THEN NaN
    ELSE Rat(estimated * behavior.den, behavior.num)

PolicyValueDfInPlace(d, behavior) ==
    [i \in DOMAIN d |->
        [estimator |-> d[i].key,
         estimated_policy_value |-> d[i].value * behavior.num,
         relative_estimated_policy_value |->
             RelativeEstimatedPolicyValue(d[i].value, behavior)]]

\* DataFrame(dict, index=["estimated_policy_value"]).T with the relative column
PolicyValueDf(d, behavior) ==
    [i \in DOMAIN d |->
        [estimator |-> d[i].key,
         estimated_policy_value |-> d[i].value,
         relative_estimated_policy_value |->
             RelativeEstimatedPolicyValue(d[i].value, behavior)]]

SummarizeOffPolicyEstimates(a, alpha, n_bootstrap_samples) ==
    LET v == EstimatePolicyValues(a)
        iv == EstimateIntervals(a, alpha, n_bootstrap_samples)
        behavior == PolicyValueOfBehaviorPolicy(bandit_feedback)
    IN  IF v.error # NoError THEN v
        ELSE IF iv.error # NoError THEN Outcome(iv.error, <<>>, v.trace \o iv.trace)
        ELSE Outcome(NoError,
                     [policy_value_df |-> PolicyValueDf(v.result, behavior),
                      policy_value_interval_df |-> iv.result],
                     v.trace \o iv.trace)

(***************************************************************************)
(* evaluate_performance_of_estimators                                      *)
(***************************************************************************)
Metrics == {"relative-ee", "se"}

\* sklearn's check_scalar(x, name, float): TypeError unless x is a float
CheckScalarFloat(x) ==
    IF x.type # "float" THEN Raise("TypeError", "ground_truth_policy_value") ELSE NoError

RelativeEESigned(estimated, truth) == Rat(estimated - truth, truth)

RelativeEE(estimated, truth) == RatAbs(Rat(estimated - truth, truth))

SE(estimated, truth) == Rat((estimated - truth) * (estimated - truth), 1)

MetricOfEach(d, metric, truth) ==
    [i \in DOMAIN d |->
        [key |-> d[i].key,
         value |-> IF metric = "relative-ee" THEN RelativeEE(d[i].value, truth)
                   ELSE SE(d[i].value, truth)]]

EvaluatePerformanceRejectsZeroTruth(ground_truth_policy_value, a, metric) ==
    LET typed == CheckScalarFloat(ground_truth_policy_value)
        truth == ground_truth_policy_value.value
        c == CreateEstimatorInputs(a)
        v == ForEachEstimator("estimate_policy_value", c.result, <<>>, 1, <<>>, c.trace)
    IN  IF typed # NoError THEN Outcome(typed, <<>>, <<>>)
        ELSE IF metric \notin Metrics THEN Outcome(Raise("ValueError", "metric"), <<>>, <<>>)
        ELSE IF truth = 0
             THEN Outcome(Raise("ValueError", "ground_truth_policy_value"), <<>>, <<>>)
        ELSE IF c.error # NoError THEN c
        ELSE IF v.error # NoError THEN v
        ELSE Outcome(NoError, MetricOfEach(v.result, metric, truth), v.trace)

EvaluatePerformanceOfEstimators(ground_truth_policy_value, a, metric) ==
    LET typed == CheckScalarFloat(ground_truth_policy_value)
        truth == ground_truth_policy_value.value
        c == CreateEstimatorInputs(a)
        v == ForEachEstimator("estimate_policy_value", c.result, <<>>, 1, <<>>, c.trace)
    IN  IF typed # NoError THEN Outcome(typed, <<>>, <<>>)
        ELSE IF metric \notin Metrics THEN Outcome(Raise("ValueError", "metric"), <<>>, <<>>)
        ELSE IF metric = "relative-ee" /\ truth = 0
             THEN Outcome(Raise("ValueError", "ground_truth_policy_value"), <<>>, <<>>)
        ELSE IF c.error # NoError THEN c
        ELSE IF v.error # NoError THEN v
        ELSE Outcome(NoError, MetricOfEach(v.result, metric, truth), v.trace)

(***************************************************************************)
(* summarize_estimators_comparison: the call of lines 604-610 hands on the *)
(* ground truth, the three probability arguments and the metric; it has no *)
(* evaluation_policy_action_dist keyword, so the callee's default applies. *)
(***************************************************************************)
\* DataFrame(dict, index=[metric]).T
EvalMetricOpeDf(d, metric) ==
    [i \in DOMAIN d |->
        [estimator |-> d[i].key, column |-> metric, value |-> d[i].value]]

SummarizeEstimatorsComparison(ground_truth_policy_value, a, metric) ==
    LET handed_on == [a EXCEPT !.evaluation_policy_action_dist = None]
        r == EvaluatePerformanceOfEstimators(ground_truth_policy_value, handed_on, metric)
    IN  IF r.error # NoError THEN r
        ELSE Outcome(NoError, EvalMetricOpeDf(r.result, metric), r.trace)

(***************************************************************************)
(* The public methods as actions.  A method is called on a constructed     *)
(* evaluator; the call overwrites the record of the previous one.          *)
(***************************************************************************)
\* the argument tuples the calls are made with
AllGiven(a) ==
    /\ a.evaluation_policy_pscore # None
    /\ a.evaluation_policy_pscore_item_position # None
    /\ a.evaluation_policy_pscore_cascade # None

CallArgs ==
    {a \in EvaluationPolicyArgs : a.evaluation_policy_action_dist = None \/ AllGiven(a)}

\* <<alpha, n_bootstrap_samples>>: the defaults, then one argument out of range
ConfidenceIntervalArgs == {<<5, 100>>, <<0, 100>>, <<-5, 100>>, <<100, 100>>, <<5, 0>>}

PyFloat(x) == [value |-> x, type |-> "float"]
PyInt(x) == [value |-> x, type |-> "int"]

\* <<ground_truth_policy_value, metric>>
PerformanceArgs ==
    {<<PyFloat(-2), "relative-ee">>, <<PyFloat(2), "relative-ee">>,
     <<PyFloat(0), "relative-ee">>, <<PyFloat(0), "se">>, <<PyFloat(2), "se">>,
     <<PyFloat(-2), "se">>, <<PyFloat(2), "mse">>, <<PyInt(0), "se">>}

Returns(name, args, o) ==
    /\ op' = name
    /\ call_args' = args
    /\ error' = o.error
    /\ result' = o.result
    /\ trace' = o.trace
    /\ UNCHANGED <<bandit_feedback, ope_estimators, base_regression_model, phase,
                   init_error, n_rounds, len_list, ope_estimators_>>

estimate_policy_values(a) ==
    /\ phase = "ready"
    /\ Returns("estimate_policy_values", [a |-> a], EstimatePolicyValues(a))

estimate_intervals(a, alpha, n_bootstrap_samples) ==
    /\ phase = "ready"
    /\ Returns("estimate_intervals",
               [a |-> a, alpha |-> alpha, n_bootstrap_samples |-> n_bootstrap_samples],
               EstimateIntervals(a, alpha, n_bootstrap_samples))

summarize_off_policy_estimates(a, alpha, n_bootstrap_samples) ==
    /\ phase = "ready"
    /\ Returns("summarize_off_policy_estimates",
               [a |-> a, alpha |-> alpha, n_bootstrap_samples |-> n_bootstrap_samples],
               SummarizeOffPolicyEstimates(a, alpha, n_bootstrap_samples))

evaluate_performance_of_estimators(ground_truth_policy_value, a, metric) ==
    /\ phase = "ready"
    /\ Returns("evaluate_performance_of_estimators",
               [a |-> a, ground_truth_policy_value |-> ground_truth_policy_value,
                metric |-> metric],
               EvaluatePerformanceOfEstimators(ground_truth_policy_value, a, metric))

summarize_estimators_comparison(ground_truth_policy_value, a, metric) ==
    /\ phase = "ready"
    /\ Returns("summarize_estimators_comparison",
               [a |-> a, ground_truth_policy_value |-> ground_truth_policy_value,
                metric |-> metric],
               SummarizeEstimatorsComparison(ground_truth_policy_value, a, metric))

(***************************************************************************)
(* The evaluator in use: a well-formed feedback that may lack one optional *)
(* field, any list of estimators, any regression model.                    *)
(***************************************************************************)
KeySets == {FeedbackKeys, FeedbackKeys \ {"context"}}

\* for the two summaries: every probability given, with and without the
\* action distribution, or none given
SummarizeArgs == {a \in CallArgs : AllGiven(a) \/ AllAbsent(a)}

Init ==
    /\ \E keys \in KeySets :
          bandit_feedback = Feedback(keys, MaxRounds, MaxLenList, 0, 1, 1)
    /\ ope_estimators \in EstimatorLists
    /\ base_regression_model \in RegressionModels
    /\ Unconstructed

Next ==
    \/ post_init
    \/ \E a \in CallArgs : estimate_policy_values(a)
    \/ \E a \in CallArgs, ci \in ConfidenceIntervalArgs :
          estimate_intervals(a, ci[1], ci[2])
    \/ \E a \in CallArgs, ci \in ConfidenceIntervalArgs :
          summarize_off_policy_estimates(a, ci[1], ci[2])
    \/ \E a \in CallArgs, pa \in PerformanceArgs :
          evaluate_performance_of_estimators(pa[1], a, pa[2])
    \/ \E a \in SummarizeArgs, pa \in PerformanceArgs :
          summarize_estimators_comparison(pa[1], a, pa[2])

Spec == Init /\ [][Next]_vars

(***************************************************************************)
(* The comparison table on its own, over every combination of the four     *)
(* evaluation-policy arguments.                                            *)
(***************************************************************************)
NextComparison ==
    \/ post_init
    \/ \E a \in EvaluationPolicyArgs, pa \in PerformanceArgs :
          summarize_estimators_comparison(pa[1], a, pa[2])

SpecComparison == Init /\ [][NextComparison]_vars

(***************************************************************************)
(* Summaries over feedbacks of every shape and reward: the first row's     *)
(* reward and the other rows' reward range over RewardValues.              *)
(***************************************************************************)
InitSummarize ==
    /\ \E n \in 1..MaxRounds, len \in 1..MaxLenList, r1, r2 \in RewardValues :
          bandit_feedback = Feedback(FeedbackKeys, n, len, 0, r1, r2)
    /\ ope_estimators \in EstimatorLists
    /\ base_regression_model = "model"
    /\ Unconstructed

NextSummarize ==
    \/ post_init
    \/ \E a \in SummarizeArgs : summarize_off_policy_estimates(a, 5, 100)

SpecSummarize == InitSummarize /\ [][NextSummarize]_vars

(***************************************************************************)
(* The bundle on its own: feedbacks that lack one optional field, or both  *)
(* pscore and pscore_item_position, and every combination of the four      *)
(* evaluation-policy arguments.                                            *)
(***************************************************************************)
KeySetsBundle ==
    {FeedbackKeys \ {k} : k \in OptionalKeys}
        \cup {FeedbackKeys, FeedbackKeys \ {"pscore", "pscore_item_position"}}

InitBundle ==
    /\ \E keys \in KeySetsBundle :
          bandit_feedback = Feedback(keys, MaxRounds, MaxLenList, 0, 1, 1)
    /\ ope_estimators \in EstimatorLists
    /\ base_regression_model = "model"
    /\ Unconstructed

NextBundle ==
    \/ post_init
    \/ \E a \in EvaluationPolicyArgs : estimate_policy_values(a)
    \/ \E a \in EvaluationPolicyArgs : estimate_intervals(a, 5, 100)

SpecBundle == InitBundle /\ [][NextBundle]_vars

(***************************************************************************)
(* Claims about construction (SpecPostInit).                               *)
(***************************************************************************)
Constructed == phase # "new"

\* C1 (as stated): whenever the feedback lacks slate_id, position or reward,
\* construction raises RuntimeError naming a required key that is missing,
\* whatever other keys are present.
C1_MissingRequiredKeyIsRuntimeError ==
    \A k \in {"slate_id", "position", "reward"} :
        (Constructed /\ k \notin bandit_feedback.keys)
            => /\ phase = "failed"
               /\ init_error.type = "RuntimeError"
               /\ init_error.arg \in {"slate_id", "position", "reward"}
               /\ init_error.arg \notin bandit_feedback.keys

\* the number of rows of a slate, when all slates have as many
GroupLength(fb) == Len(fb.slate_id) \div Cardinality(Unique(fb.slate_id))

\* C2 (as stated): for valid feedback the derived len_list is the count of
\* rows with position 0, and n_rounds * len_list is the total row count.
C2_LenListCountsPositionZero ==
    phase = "ready"
        => /\ len_list = CountEq(bandit_feedback.position, 0)
           /\ n_rounds * len_list = Len(bandit_feedback.slate_id)

\* C2 (amended): the derived len_list is the count of rows with slate_id 0;
\* when some slate has id 0 that is the common slate length, and then
\* n_rounds * len_list is the total row count (n_rounds being the number
\* of slates); when no slate has id 0 it is 0.
C2_LenListCountsSlateZero ==
    phase = "ready"
        => /\ len_list = CountEq(bandit_feedback.slate_id, 0)
           /\ 0 \in Unique(bandit_feedback.slate_id)
                => /\ len_list = GroupLength(bandit_feedback)
                   /\ n_rounds * len_list = Len(bandit_feedback.slate_id)
           /\ 0 \notin Unique(bandit_feedback.slate_id) => len_list = 0

C2_Witness ==
    /\ phase = "ready"
    /\ 0 \in Unique(bandit_feedback.slate_id)
    /\ n_rounds = 3
    /\ len_list = 2
    /\ CountEq(bandit_feedback.position, 0) = 3

\* the index of the last estimator of the list that has this name
LastWithName(ests, name) ==
    CHOOSE i \in DOMAIN ests :
        /\ ests[i].estimator_name = name
        /\ \A j \in DOMAIN ests : ests[j].estimator_name = name => j <= i

\* C9: after construction the registry has exactly one entry per distinct
\* estimator name, each holding the last estimator of the list with that
\* name, and construction fails only on a missing feedback key, never on a
\* duplicate name.
C9_RegistryLastWriteWins ==
    /\ phase = "ready"
         => LET names == {ope_estimators[i].estimator_name : i \in DOMAIN ope_estimators}
            IN  /\ DictKeys(ope_estimators_) = names
                /\ Len(ope_estimators_) = Cardinality(names)
                /\ \A name \in names :
                      DictGet(ope_estimators_, name)
                          = ope_estimators[LastWithName(ope_estimators, name)]
    /\ phase = "failed" => ~(ConstructorKeys \subseteq bandit_feedback.keys)

C9_Witness ==
    /\ phase = "ready"
    /\ Len(ope_estimators) = 2
    /\ ope_estimators[1].estimator_name = ope_estimators[2].estimator_name
    /\ ope_estimators[1] # ope_estimators[2]
    /\ Len(ope_estimators_) = 1
    /\ ope_estimators_[1].value = ope_estimators[2]

(***************************************************************************)
(* Claims about the calls (Spec, SpecSummarize).                           *)
(***************************************************************************)
ArgsOfCall == call_args.a

NoProbabilityGiven ==
    /\ ArgsOfCall.evaluation_policy_pscore = None
    /\ ArgsOfCall.evaluation_policy_pscore_item_position = None
    /\ ArgsOfCall.evaluation_policy_pscore_cascade = None

\* C3: _create_estimator_inputs (reached through estimate_policy_values)
\* raises ValueError exactly when the three probability arguments are all
\* None, and then neither fit_predict nor any estimator has been called.
C3_ValueErrorIffAllAbsent ==
    op = "estimate_policy_values"
        => /\ (error.type = "ValueError") <=> NoProbabilityGiven
           /\ error.type = "ValueError" => trace = <<>>

C3_Witness ==
    /\ op = "estimate_policy_values"
    /\ NoProbabilityGiven
    /\ ArgsOfCall.evaluation_policy_action_dist = None
    /\ error.type = "ValueError"
    /\ base_regression_model = "model"
    /\ Len(ope_estimators_) = 2

InvalidConfidenceIntervalArgs ==
    \/ call_args.alpha <= 0
    \/ call_args.alpha >= 100
    \/ call_args.n_bootstrap_samples <= 0

\* C4: estimate_intervals with alpha <= 0, alpha >= 1 or n_bootstrap_samples
\* <= 0 raises ValueError before fit_predict and before any estimator's
\* estimate_interval is called.
C4_IntervalsValidateFirst ==
    (op = "estimate_intervals" /\ InvalidConfidenceIntervalArgs)
        => /\ error.type = "ValueError"
           /\ trace = <<>>

C4_Witness ==
    /\ op = "estimate_intervals"
    /\ InvalidConfidenceIntervalArgs
    /\ ~NoProbabilityGiven
    /\ error.type = "ValueError"
    /\ base_regression_model = "model"
    /\ "context" \in bandit_feedback.keys
    /\ Len(ope_estimators_) = 2

\* C5 (as stated): a summarize_off_policy_estimates call that fails on an
\* invalid alpha or n_bootstrap_samples has called no estimator and no
\* fit_predict.
C5_DoomedSummaryCallsNothing ==
    (/\ op = "summarize_off_policy_estimates"
     /\ InvalidConfidenceIntervalArgs
     /\ error.type = "ValueError")
        => trace = <<>>

TruthOfCall == call_args.ground_truth_policy_value

\* C6: evaluate_performance_of_estimators with a float ground truth 0 and
\* metric relative-ee, or with an unknown metric, raises ValueError before
\* fit_predict or any estimator is called; with ground truth 0 and metric
\* se it returns, for every registered estimator, the square of what the
\* estimator answered, whenever the regression model and the estimators
\* themselves answer.
C6_ZeroTruthAndUnknownMetric ==
    (op = "evaluate_performance_of_estimators" /\ TruthOfCall.type = "float")
        => /\ (TruthOfCall.value = 0 /\ call_args.metric = "relative-ee")
                => (error.type = "ValueError" /\ trace = <<>>)
           /\ call_args.metric \notin {"relative-ee", "se"}
                => (error.type = "ValueError" /\ trace = <<>>)
           /\ (TruthOfCall.value = 0 /\ call_args.metric = "se")
                => LET v == EstimatePolicyValues(ArgsOfCall)
                   IN  /\ error = v.error
                       /\ v.error = NoError
                            => /\ Len(result) = Len(ope_estimators_)
                               /\ \A i \in DOMAIN result :
                                     /\ result[i].key = ope_estimators_[i].key
                                     /\ result[i].value.den = 1
                                     /\ result[i].value.num
                                          = ope_estimators_[i].value.value
                                              * ope_estimators_[i].value.value

C6_Witness ==
    /\ op = "evaluate_performance_of_estimators"
    /\ TruthOfCall = PyFloat(0)
    /\ call_args.metric = "se"
    /\ error = NoError
    /\ Len(result) = 2
    /\ result[2].value.num = 4

\* C7 (as stated): with metric relative-ee and a non-zero ground truth the
\* value returned for every estimator is |estimated - truth| / truth, the
\* quotient keeping the sign of the ground truth.
C7_RelativeEEDividesBySignedTruth ==
    (/\ op = "evaluate_performance_of_estimators"
     /\ call_args.metric = "relative-ee"
     /\ error = NoError)
        => \A i \in DOMAIN result :
              LET estimated == ope_estimators_[i].value.value
                  truth == TruthOfCall.value
              IN  \* result = |estimated - truth| / truth, cross-multiplied
                  result[i].value.num * truth
                      = Abs(estimated - truth) * result[i].value.den

\* C7 (amended): the value returned is |(estimated - truth) / truth|, that
\* is |estimated - truth| / |truth|: never negative.
C7_RelativeEEIsAbsoluteQuotient ==
    (/\ op = "evaluate_performance_of_estimators"
     /\ call_args.metric = "relative-ee"
     /\ error = NoError)
        => /\ Len(result) = Len(ope_estimators_)
           /\ \A i \in DOMAIN result :
                 LET estimated == ope_estimators_[i].value.value
                     truth == TruthOfCall.value
                 IN  /\ result[i].key = ope_estimators_[i].key
                     /\ result[i].value.den > 0
                     /\ result[i].value.num >= 0
                     /\ result[i].value.num * Abs(truth)
                          = Abs(estimated - truth) * result[i].value.den

C7_Witness ==
    /\ op = "evaluate_performance_of_estimators"
    /\ call_args.metric = "relative-ee"
    /\ error = NoError
    /\ TruthOfCall.value = -2
    /\ Len(result) = 2
    /\ result[1].value = [num |-> 3, den |-> 2]

RewardSum == SumSeq(bandit_feedback.reward)
DistinctSlates == Cardinality(Unique(bandit_feedback.slate_id))

\* C8: summarize_off_policy_estimates does not raise on its own account
\* (it fails only where estimate_policy_values or estimate_intervals fail),
\* and with behaviour value sum(reward) / distinct slates the relative
\* column is nan for every estimator when that value is <= 0 and
\* estimated / behaviour value otherwise.
C8_RelativeEstimatedPolicyValue ==
    op = "summarize_off_policy_estimates"
        => /\ (/\ EstimatePolicyValues(ArgsOfCall).error = NoError
               /\ EstimateIntervals(ArgsOfCall, call_args.alpha,
                                    call_args.n_bootstrap_samples).error = NoError)
                => error = NoError
           /\ error = NoError
                => /\ Len(result.policy_value_df) = Len(ope_estimators_)
                   /\ \A i \in DOMAIN result.policy_value_df :
                         LET row == result.policy_value_df[i]
                             rel == row.relative_estimated_policy_value
                         IN  /\ row.estimator = ope_estimators_[i].key
                             /\ IF RewardSum <= 0 THEN rel = NaN
                                ELSE /\ rel.den > 0
                                     /\ rel.num * RewardSum
                                          = row.estimated_policy_value
                                              * DistinctSlates * rel.den

\* 4 slates of 2 rows, every reward 1: behaviour value 2; an estimate of 1
\* gives 1/2
C8_Witness ==
    /\ op = "summarize_off_policy_estimates"
    /\ error = NoError
    /\ DistinctSlates = 4
    /\ Len(bandit_feedback.reward) = 8
    /\ RewardSum = 8
    /\ Len(result.policy_value_df) = 2
    /\ result.policy_value_df[1].estimated_policy_value = 1
    /\ result.policy_value_df[1].relative_estimated_policy_value = [num |-> 1, den |-> 2]

C8_WitnessNaN ==
    /\ op = "summarize_off_policy_estimates"
    /\ error = NoError
    /\ RewardSum < 0
    /\ Len(result.policy_value_df) = 2
    /\ result.policy_value_df[1].relative_estimated_policy_value = NaN

\* C10: when summarize_off_policy_estimates returns, the
\* estimated_policy_value column of its first table is, estimator by
\* estimator, what estimate_policy_values returns for the same arguments.
C10_SummaryKeepsPointValues ==
    (op = "summarize_off_policy_estimates" /\ error = NoError)
        => LET v == EstimatePolicyValues(ArgsOfCall)
               df == result.policy_value_df
           IN  /\ v.error = NoError
               /\ Len(df) = Len(v.result)
               /\ \A i \in DOMAIN df :
                     /\ df[i].estimator = v.result[i].key
                     /\ df[i].estimated_policy_value = v.result[i].value

C10_Witness ==
    /\ op = "summarize_off_policy_estimates"
    /\ error = NoError
    /\ Len(result.policy_value_df) = 2
    /\ result.policy_value_df[1].estimated_policy_value = 1
    /\ result.policy_value_df[2].estimated_policy_value = -2
    /\ result.policy_value_df[2].relative_estimated_policy_value = [num |-> -1, den |-> 1]

\* C11 (as stated): summarize_estimators_comparison hands the regression
\* model and the estimators the same inputs, fails the same way and holds
\* the same value per estimator as evaluate_performance_of_estimators
\* called directly with the same ground truth, metric and four
\* evaluation-policy arguments.
C11_ComparisonWrapsEvaluation ==
    op = "summarize_estimators_comparison"
        => LET direct == EvaluatePerformanceOfEstimators(
                             TruthOfCall, ArgsOfCall, call_args.metric)
           IN  /\ trace = direct.trace
               /\ error = direct.error
               /\ error = NoError
                    => /\ Len(result) = Len(direct.result)
                       /\ \A i \in DOMAIN result :
                             /\ result[i].estimator = direct.result[i].key
                             /\ result[i].value = direct.result[i].value

EstimatorById(id) == CHOOSE e \in EstimatorPool : e.id = id

\* did the collaborator raise in this call of the trace
RaisedIn(ev) ==
    IF ev.call = "fit_predict" THEN base_regression_model = "failing_model"
    ELSE EstimatorById(ev.estimator).raises

\* what it raised
RaisedBy(ev) ==
    IF ev.call = "fit_predict" THEN Raise("RegressionError", "fit_predict")
    ELSE Raise("EstimatorError", EstimatorById(ev.estimator).estimator_name)

\* C12: in estimate_policy_values, estimate_intervals and
\* evaluate_performance_of_estimators, a collaborator call that raises is the
\* last call made (no later estimator is invoked), the method raises that
\* same error, and nothing is returned.
C12_CollaboratorErrorFailsWholeCall ==
    op \in {"estimate_policy_values", "estimate_intervals",
            "evaluate_performance_of_estimators"}
        => \A i \in DOMAIN trace :
              RaisedIn(trace[i])
                  => /\ i = Len(trace)
                     /\ error = RaisedBy(trace[i])
                     /\ result = <<>>

C12_Witness ==
    /\ op = "estimate_policy_values"
    /\ Len(ope_estimators_) = 2
    /\ ope_estimators_[1].value.raises
    /\ ~ope_estimators_[2].value.raises
    /\ Len(trace) = 2
    /\ error = Raise("EstimatorError", "sips")
    /\ result = <<>>

FitPredictCalls == {i \in DOMAIN trace : trace[i].call = "fit_predict"}
EstimatorCalls == {i \in DOMAIN trace : trace[i].call # "fit_predict"}

\* C13 (as stated): every estimate_policy_values, estimate_intervals,
\* evaluate_performance_of_estimators or summarize_off_policy_estimates call
\* that returns has called fit_predict exactly once, before every estimator
\* call.
C13_OneFitPredictPerCall ==
    (/\ op \in {"estimate_policy_values", "estimate_intervals",
                "evaluate_performance_of_estimators",
                "summarize_off_policy_estimates"}
     /\ error = NoError)
        => /\ Cardinality(FitPredictCalls) = 1
           /\ \A f \in FitPredictCalls, e \in EstimatorCalls : f < e

\* What holds instead: the three methods that build one bundle call
\* fit_predict once, first, and hand every estimator the same bundle;
\* summarize_off_policy_estimates builds the bundle and calls fit_predict
\* twice, the second time after all the estimate_policy_value calls and
\* before all the estimate_interval calls.
FitPredictOncePerInnerCall ==
    LET k == Len(ope_estimators_)
    IN  /\ (/\ op \in {"estimate_policy_values", "estimate_intervals",
                       "evaluate_performance_of_estimators"}
            /\ error = NoError)
               => /\ FitPredictCalls = {1}
                  /\ Len(trace) = 1 + k
                  /\ \A i, j \in EstimatorCalls : trace[i].inputs = trace[j].inputs
        /\ (op = "summarize_off_policy_estimates" /\ error = NoError)
               => /\ FitPredictCalls = {1, k + 2}
                  /\ Len(trace) = 2 * (k + 1)
                  /\ \A i \in 2..(k + 1) : trace[i].call = "estimate_policy_value"
                  /\ \A i \in (k + 3)..(2 * k + 2) : trace[i].call = "estimate_interval"

LoggedKeysOfBundle ==
    {"slate_id", "action", "reward", "position", "pscore",
     "pscore_item_position", "pscore_cascade"}

ArgumentKeysOfBundle ==
    {"evaluation_policy_pscore", "evaluation_policy_pscore_item_position",
     "evaluation_policy_pscore_cascade", "evaluation_policy_action_dist"}

\* the bundle is exactly what the claim lists
BundleAsClaimed(b) ==
    /\ DictKeys(b) = (LoggedKeysOfBundle \cap bandit_feedback.keys)
                         \cup ArgumentKeysOfBundle
                         \cup {"q_hat_for_counterfactual_actions"}
    /\ Len(b) = Cardinality(DictKeys(b))
    /\ \A k \in LoggedKeysOfBundle \cap bandit_feedback.keys :
          DictGet(b, k) = [src |-> "bandit_feedback", key |-> k]
    /\ DictGet(b, "evaluation_policy_pscore") = ArgsOfCall.evaluation_policy_pscore
    /\ DictGet(b, "evaluation_policy_pscore_item_position")
          = ArgsOfCall.evaluation_policy_pscore_item_position
    /\ DictGet(b, "evaluation_policy_pscore_cascade")
          = ArgsOfCall.evaluation_policy_pscore_cascade
    /\ DictGet(b, "evaluation_policy_action_dist")
          = ArgsOfCall.evaluation_policy_action_dist
    /\ DictGet(b, "q_hat_for_counterfactual_actions")
          = [src |-> "fit_predict", key |-> "q_hat_for_counterfactual_actions"]

\* C14: in estimate_policy_values and estimate_intervals every estimator is
\* handed the same bundle, and the bundle holds exactly the logged fields
\* that the feedback has (none for an absent one), the four evaluation-policy
\* arguments as the caller gave them (None stays None) and fit_predict's
\* output.
C14_BundleContents ==
    op \in {"estimate_policy_values", "estimate_intervals"}
        => /\ \A i \in EstimatorCalls : BundleAsClaimed(trace[i].inputs)
           /\ \A i, j \in EstimatorCalls : trace[i].inputs = trace[j].inputs
           /\ error = NoError => Cardinality(EstimatorCalls) = Len(ope_estimators_)

C14_Witness ==
    /\ op = "estimate_policy_values"
    /\ error = NoError
    /\ "pscore" \notin bandit_feedback.keys
    /\ ArgsOfCall.evaluation_policy_pscore = None
    /\ ArgsOfCall.evaluation_policy_action_dist = None
    /\ ArgsOfCall.evaluation_policy_pscore_cascade # None
    /\ Len(ope_estimators_) = 2
    /\ Len(trace) = 3
    /\ ~DictHas(trace[3].inputs, "pscore")
    /\ DictGet(trace[3].inputs, "evaluation_policy_pscore") = None

\* the checks that each method makes before it builds the estimator inputs
PassesArgumentValidation ==
    /\ ~NoProbabilityGiven
    /\ op = "estimate_intervals" => ~InvalidConfidenceIntervalArgs
    /\ op \in {"evaluate_performance_of_estimators", "summarize_estimators_comparison"}
          => /\ TruthOfCall.type = "float"
             /\ call_args.metric \in {"relative-ee", "se"}
             /\ ~(call_args.metric = "relative-ee" /\ TruthOfCall.value = 0)

====
